---- MODULE Spec2Model ----
(***************************************************************************)
(* Model of sf_tickets_to_github.py: the paged SourceForge reader, the     *)
(* ticket -> issue transform, the GitHub writer and the migration loop.    *)
(*                                                                         *)
(* Text is a sequence of atoms.  An atom is a one-character string where   *)
(* the code looks at characters (status, labels, URLs, numbers) and a      *)
(* literal token where the code only copies a fixed piece of text.         *)
(*                                                                         *)
(* A JSON/Python value read from a dict is a record [k, v]: k is           *)
(* "missing" (no such key), "null" (None) or "val" (v is the value).       *)
(***************************************************************************)
EXTENDS Integers, Sequences, FiniteSets, TLC

\* ------------------------------------------------------------------ bounds

\* most page requests of one listing
MaxPages == 2
\* most tickets the source lists, over all pages, and the largest total it
\* reports; the limits tried are None and the numbers below it
MaxTickets == 2
\* longest label list / discussion thread / attachment list of the transform inputs
MaxItems == 2

\* ------------------------------------------------------------ Python values

Missing(v0) == [k |-> "missing", v |-> v0]
Null(v0) == [k |-> "null", v |-> v0]
Val(x) == [k |-> "val", v |-> x]

MissingS == Missing(<<>>)
NoneS == Null(<<>>)

\* dict.get(key, default): the default only when the key is missing
PyGet(f, d) == IF f.k = "missing" THEN d ELSE f
\* dict.get(key): None when the key is missing
PyGetNone(f) == IF f.k = "missing" THEN Null(f.v) ELSE f
\* truth value of a str or list: not None and not empty
Truthy(x) == x.k = "val" /\ Len(x.v) > 0
\* x or y
PyOr(x, y) == IF Truthy(x) THEN x ELSE y
\* f"{x}" of a str or None
FmtStr(x) == IF x.k = "val" THEN x.v ELSE <<"None">>

Digits == <<"0", "1", "2", "3", "4", "5", "6", "7", "8", "9">>

RECURSIVE IntToStr(_)
\* str() of a non-negative int
IntToStr(n) == IF n < 10 THEN <<Digits[n + 1]>> ELSE IntToStr(n \div 10) \o <<Digits[(n % 10) + 1]>>

Uppers == <<"A", "B", "C", "D", "E", "F", "G", "H", "I", "J", "K", "L", "M",
            "N", "O", "P", "Q", "R", "S", "T", "U", "V", "W", "X", "Y", "Z">>
Lowers == <<"a", "b", "c", "d", "e", "f", "g", "h", "i", "j", "k", "l", "m",
            "n", "o", "p", "q", "r", "s", "t", "u", "v", "w", "x", "y", "z">>

LowerChar(c) == IF \E j \in 1..Len(Uppers) : Uppers[j] = c
                THEN Lowers[CHOOSE j \in 1..Len(Uppers) : Uppers[j] = c]
                ELSE c
\* str.lower()
StrLower(s) == [j \in 1..Len(s) |-> LowerChar(s[j])]
\* str.replace(old, new) for one-character old and new
StrReplace(s, old, new) == [j \in 1..Len(s) |-> IF s[j] = old THEN new ELSE s[j]]
\* str.startswith / str.endswith
StartsWith(s, p) == Len(s) >= Len(p) /\ SubSeq(s, 1, Len(p)) = p
EndsWith(s, p) == Len(s) >= Len(p) /\ SubSeq(s, Len(s) - Len(p) + 1, Len(s)) = p

RECURSIVE Join(_, _)
\* sep.join(parts)
Join(sep, parts) ==
    IF Len(parts) = 0 THEN <<>>
    ELSE IF Len(parts) = 1 THEN parts[1]
    ELSE parts[1] \o sep \o Join(sep, Tail(parts))

\* s.split(ch)[0]: the text before the first ch
SplitFirst(s, ch) ==
    IF \E j \in 1..Len(s) : s[j] = ch
    THEN SubSeq(s, 1, (CHOOSE j \in 1..Len(s) : s[j] = ch /\ \A h \in 1..(j - 1) : s[h] # ch) - 1)
    ELSE s

\* the end of the path component that holds position j
CompEnd(s, j) ==
    IF \E h \in j..Len(s) : s[h] = "/"
    THEN (CHOOSE h \in j..Len(s) : s[h] = "/" /\ \A g \in j..(h - 1) : s[g] # "/") - 1
    ELSE Len(s)

\* Path(s).name: the last path component that is neither empty nor ".", else ""
PathName(s) ==
    LET starts == {j \in 1..Len(s) : /\ s[j] # "/"
                                      /\ (j = 1 \/ s[j - 1] = "/")
                                      /\ SubSeq(s, j, CompEnd(s, j)) # <<".">>}
    IN IF starts = {} THEN <<>>
       ELSE LET j == CHOOSE x \in starts : \A y \in starts : y <= x
            IN SubSeq(s, j, CompEnd(s, j))

\* ------------------------------------------------ convert_ticket_to_issue

IMAGE_EXTENSIONS == {<<".", "p", "n", "g">>, <<".", "j", "p", "g">>, <<".", "j", "p", "e", "g">>,
                     <<".", "g", "i", "f">>, <<".", "b", "m", "p">>, <<".", "s", "v", "g">>,
                     <<".", "w", "e", "b", "p">>}

\* a detail dict with no key at all
EmptyThread == [posts |-> Missing(<<>>)]
EmptyData == [description |-> MissingS, attachments |-> Missing(<<>>),
              labels |-> Missing(<<>>), discussion_thread |-> Missing(EmptyThread)]

\* the return value None of fetch_ticket_details
NoDetail == [k |-> "null", ticket |-> Missing(EmptyData)]
\* a decoded detail response whose only key may be "ticket"
Detail(t) == [k |-> "val", ticket |-> t]

\* truth value of detailed_ticket: not None and not the empty dict
DetailTruthy(detailed_ticket) == detailed_ticket.k = "val" /\ detailed_ticket.ticket.k # "missing"

\* detailed_ticket.get("ticket", {}) if detailed_ticket else {}
DetailedData(detailed_ticket) ==
    IF DetailTruthy(detailed_ticket) THEN PyGet(detailed_ticket.ticket, Val(EmptyData))
    ELSE Val(EmptyData)

\* f"{ticket.get('ticket_num', '')}"
FmtTicketNum(ticket) ==
    IF ticket.ticket_num.k = "missing" THEN <<>>
    ELSE IF ticket.ticket_num.k = "null" THEN <<"None">>
    ELSE IntToStr(ticket.ticket_num.v)

\* detailed_data.get("description") or ticket.get("description", "")
Description(ticket, data) == PyOr(PyGetNone(data.description), PyGet(ticket.description, Val(<<>>)))

IssueTitle(ticket) ==
    <<"[SF#">> \o FmtTicketNum(ticket) \o <<"] ">> \o FmtStr(PyGet(ticket.summary, Val(<<"No summary">>)))

BodyHead(ticket, data) ==
    << <<"**Migrated from SourceForge ticket #">> \o FmtTicketNum(ticket) \o <<"**">>,
       <<>>,
       <<"**Original Reporter:** ">> \o FmtStr(PyGet(ticket.reported_by, Val(<<"unknown">>))),
       <<"**Created:** ">> \o FmtStr(PyGet(ticket.created_date, Val(<<>>))),
       <<"**Last Modified:** ">> \o FmtStr(PyGet(ticket.mod_date, Val(<<>>))),
       <<"**Status:** ">> \o FmtStr(PyGet(ticket.status, Val(<<>>))),
       <<>>,
       <<"---">>,
       <<>>,
       <<"## Description">>,
       <<>>,
       IF Truthy(Description(ticket, data)) THEN Description(ticket, data).v
       ELSE <<"*(No description provided)*">> >>

\* the file name taken from the URL's path, the query string removed
AttFilename(url) ==
    LET name == PathName(SplitFirst(url, "?"))
    IN IF Len(name) > 0 THEN name ELSE <<"attachment">>

AttFullUrl(url) ==
    IF StartsWith(url, <<"h", "t", "t", "p", ":", "/", "/">>)
       \/ StartsWith(url, <<"h", "t", "t", "p", "s", ":", "/", "/">>)
    THEN url
    ELSE IF StartsWith(url, <<"/">>) THEN <<"https://sourceforge.net">> \o url
    ELSE <<"https://sourceforge.net/">> \o url

\* IsImage comparing the filename as it is written
IsImage_CaseSensitive(filename) == \E ext \in IMAGE_EXTENSIONS : EndsWith(filename, ext)

IsImage(filename) == \E ext \in IMAGE_EXTENSIONS : EndsWith(StrLower(filename), ext)

\* the body line of one attachment that has a URL
AttLine(url) ==
    IF IsImage(AttFilename(url))
    THEN <<"![">> \o AttFilename(url) \o <<"](">> \o AttFullUrl(url) \o <<")">>
    ELSE <<"- [">> \o AttFilename(url) \o <<"](">> \o AttFullUrl(url) \o <<")">>

RECURSIVE AttLines(_)
\* the loop over the attachments: one line per attachment with a URL
AttLines(atts) ==
    IF Len(atts) = 0 THEN <<>>
    ELSE LET url == PyGet(Head(atts).url, Val(<<>>))
         IN (IF Truthy(url) THEN <<AttLine(url.v)>> ELSE <<>>) \o AttLines(Tail(atts))

AttSection(data) ==
    LET attachments == PyGet(data.attachments, Val(<<>>))
    IN IF Truthy(attachments)
       THEN << <<>>, <<"---">>, <<>>, <<"## Attachments">>, <<>> >> \o AttLines(attachments.v)
       ELSE <<>>

IssueBody(ticket, data) == Join(<<"\n">>, BodyHead(ticket, data) \o AttSection(data))

\* lowercase, spaces replaced by hyphens
Sanitize(s) == StrReplace(StrLower(s), " ", "-")

StatusLabels(ticket) ==
    LET status == PyGet(ticket.status, Val(<<>>))
    IN IF Truthy(status) THEN << <<"sf-status-">> \o Sanitize(status.v) >> ELSE <<>>

RECURSIVE SfLabels_Dedup(_)
\* SfLabels with a label that occurs again later left out
SfLabels_Dedup(ls) ==
    IF Len(ls) = 0 THEN <<>>
    ELSE LET rest == SfLabels_Dedup(Tail(ls))
         IN IF Truthy(Head(ls)) /\ \A j \in 1..Len(rest) : rest[j] # Sanitize(Head(ls).v)
            THEN <<Sanitize(Head(ls).v)>> \o rest
            ELSE rest

RECURSIVE SfLabels(_)
\* the loop over the source labels: every non-empty label, sanitized
SfLabels(ls) ==
    IF Len(ls) = 0 THEN <<>>
    ELSE (IF Truthy(Head(ls)) THEN <<Sanitize(Head(ls).v)>> ELSE <<>>) \o SfLabels(Tail(ls))

IssueLabels(ticket, data) ==
    LET sf_labels == PyGet(data.labels, Val(<<>>))
    IN << <<"migrated-from-sourceforge">> >> \o StatusLabels(ticket)
       \o (IF Truthy(sf_labels) THEN SfLabels(sf_labels.v) ELSE <<>>)

\* the text of the comment made from one post
CommentText(post) ==
    Join(<<"\n">>,
         << <<"**Comment by ">> \o FmtStr(PyGet(post.author, Val(<<"unknown">>))) \o <<"** *(SourceForge)*">>,
            <<"**Date:** ">> \o FmtStr(PyGet(post.timestamp, Val(<<>>))),
            <<>>,
            PyGet(post.text, Val(<<>>)).v >>)

RECURSIVE PostComments_KeepsEmpty(_)
\* PostComments without the test for an empty text
PostComments_KeepsEmpty(posts) ==
    IF Len(posts) = 0 THEN <<>>
    ELSE <<CommentText(Head(posts))>> \o PostComments_KeepsEmpty(Tail(posts))

RECURSIVE PostComments(_)
\* the loop over the posts: one comment per post with non-empty text
PostComments(posts) ==
    IF Len(posts) = 0 THEN <<>>
    ELSE (IF Truthy(PyGet(Head(posts).text, Val(<<>>))) THEN <<CommentText(Head(posts))>> ELSE <<>>)
         \o PostComments(Tail(posts))

\* detailed_data.get("discussion_thread", {})
DiscussionThread(data) == PyGet(data.discussion_thread, Val(EmptyThread))
\* discussion_thread.get("posts", [])
Posts(thread) == PyGet(thread.posts, Val(<<>>))

\* the inputs on which the function raises instead of returning: .get() on a
\* detail or thread that is None (AttributeError), a loop over posts that is None
\* (TypeError)
ConvertRaises(detailed_ticket) ==
    LET data == DetailedData(detailed_ticket)
    IN \/ data.k = "null"
       \/ /\ data.k = "val"
          /\ \/ DiscussionThread(data.v).k = "null"
             \/ Posts(DiscussionThread(data.v).v).k = "null"

NoDraft == [raised |-> TRUE, title |-> <<>>, body |-> <<>>, labels |-> <<>>, comments |-> <<>>]

convert_ticket_to_issue(ticket, detailed_ticket) ==
    IF ConvertRaises(detailed_ticket) THEN NoDraft
    ELSE LET data == DetailedData(detailed_ticket).v
         IN [raised |-> FALSE,
             title |-> IssueTitle(ticket),
             body |-> IssueBody(ticket, data),
             labels |-> IssueLabels(ticket, data),
             comments |-> PostComments(Posts(DiscussionThread(data).v).v)]

\* ------------------------------------------------------------ the inputs

Chars_open == <<"o", "p", "e", "n">>
Chars_WontFix == <<"W", "o", "n", "t", " ", "F", "i", "x">>
Chars_Bug == <<"B", "u", "g">>
Chars_photo == <<"/", "a", "/", "p", "h", "o", "t", "o", ".", "P", "N", "G">>
Chars_notes == <<"h", "t", "t", "p", ":", "/", "/", "h", "/", "r", ".", "t", "x", "t", "?", "v", "=", "1">>
Chars_shot == <<"s", ".", "g", "i", "f", "?", "w">>
Chars_doc == <<"d", "?", "x", ".", "p", "n", "g">>

\* a ticket of the listing with every field a well-formed tracker gives
TicketA == [ticket_num |-> Val(42), summary |-> Val(<<"Crash on save">>), status |-> Val(Chars_open),
            created_date |-> Val(<<"2020-01-01">>), mod_date |-> Val(<<"2020-02-02">>),
            reported_by |-> Val(<<"alice">>), description |-> MissingS]
\* a ticket of the listing without a number
TicketB == [ticket_num |-> Missing(0), summary |-> MissingS, status |-> Val(Chars_WontFix),
            created_date |-> MissingS, mod_date |-> MissingS,
            reported_by |-> MissingS, description |-> Val(<<"short text">>)]

RunTickets == {TicketA, TicketB}

Post(author, text) == [author |-> author, timestamp |-> Val(<<"2020-03-03">>), text |-> text]
Att(url) == [url |-> url]
Data(description, attachments, labels, thread) ==
    [description |-> description, attachments |-> attachments, labels |-> labels,
     discussion_thread |-> thread]
Thread(posts) == Val([posts |-> posts])

\* a well-formed detail: three posts, the second one empty
DetailGood ==
    Detail(Val(Data(Val(<<"full text">>), Val(<<Att(Val(Chars_photo))>>), Val(<<Val(Chars_Bug)>>),
                    Thread(Val(<<Post(Val(<<"bob">>), Val(<<"first">>)),
                                 Post(Val(<<"bob">>), Val(<<>>)),
                                 Post(MissingS, Val(<<"second">>))>>)))))
\* a detail whose discussion thread is null
DetailNullThread == Detail(Val(Data(MissingS, Missing(<<>>), Missing(<<>>), Null(EmptyThread))))

RunDetails == {DetailGood, DetailNullThread}

\* all sequences over S of length at most n
SeqsUpTo(S, n) == UNION {[1..m -> S] : m \in 0..n}

\* a list-valued key: missing, null or a list
ListField(S) == {Missing(<<>>), Null(<<>>)} \cup {Val(l) : l \in SeqsUpTo(S, MaxItems)}

LabelInputs == {Null(<<>>), Val(<<>>), Val(Chars_WontFix)}
PostInputs == {Post(MissingS, Val(<<"first">>)), Post(Val(<<"bob">>), Val(<<>>)),
               Post(Val(<<"bob">>), Val(<<"second">>)), Post(Null(<<>>), Null(<<>>))}
AttInputs == {Att(MissingS), Att(Val(Chars_photo)), Att(Val(Chars_notes)), Att(Val(Chars_shot)),
              Att(Val(Chars_doc))}
ThreadInputs == {Missing(EmptyThread), Null(EmptyThread)} \cup {Thread(ps) : ps \in ListField(PostInputs)}

TicketInputs ==
    [ticket_num : {Missing(0), Null(0), Val(7), Val(42)},
     summary : {MissingS, Val(<<"Crash on save">>)},
     status : {MissingS, NoneS, Val(<<>>), Val(Chars_open), Val(Chars_WontFix)},
     created_date : {Val(<<"2020-01-01">>)},
     mod_date : {MissingS},
     reported_by : {MissingS, Val(<<"alice">>)},
     description : {MissingS, NoneS, Val(<<>>), Val(<<"short text">>)}]

DetailInputs ==
    {NoDetail, Detail(Missing(EmptyData)), Detail(Null(EmptyData))}
    \cup {Detail(Val(Data(d, Missing(<<>>), ls, th))) :
             d \in {MissingS, Val(<<"full text">>)}, ls \in ListField(LabelInputs), th \in ThreadInputs}
    \cup {Detail(Val(Data(d, as, Missing(<<>>), Missing(EmptyThread)))) :
             d \in {NoneS, Val(<<>>)}, as \in ListField(AttInputs)}

\* ------------------------------------------------------------------ main

\* what --sf-project, --gh-owner, --gh-repo and --gh-token may hold: None
\* when the option is not given, or the text given
ArgInputs == {NoneS, Val(<<>>), Val(<<"v">>)}
\* what the config file may hold under a key
ConfigInputs == {MissingS, NoneS, Val(<<>>), Val(<<"v">>)}
\* what os.environ.get("GITHUB_TOKEN") may give
EnvInputs == {NoneS, Val(<<>>), Val(<<"v">>)}

ParamNames == {"sf_project", "gh_owner", "gh_repo", "gh_token"}

NoParams == [n \in ParamNames |-> NoneS]
\* config = {}
NoConfig == [n \in ParamNames |-> MissingS]
\* all four options given on the command line
GivenArgs == [n \in ParamNames |-> Val(<<"v">>)]

\* command line first, then the config file, then for the token the environment
Merged(args, config, env) ==
    [n \in ParamNames |->
        IF n = "gh_token" THEN PyOr(PyOr(args[n], PyGetNone(config[n])), env)
        ELSE PyOr(args[n], PyGetNone(config[n]))]

\* RequiredPresent without the test of the token
RequiredPresent_NoToken(p) == Truthy(p.sf_project) /\ Truthy(p.gh_owner) /\ Truthy(p.gh_repo)

\* none of the four `if not ...: sys.exit(1)` fires
RequiredPresent(p) ==
    Truthy(p.sf_project) /\ Truthy(p.gh_owner) /\ Truthy(p.gh_repo) /\ Truthy(p.gh_token)

\* ------------------------------------------------------------- the state

VARIABLES
    status,           \* migrate_tickets: the status filter
    limit,            \* migrate_tickets: the limit, None or an int
    dry_run,          \* migrate_tickets: the preview flag
    params,           \* main: sf_project, gh_owner, gh_repo, gh_token after the merge
    exit_code,        \* main: the status of sys.exit, None while the process runs
    pc,               \* where the run is: "main", "exit", "fetch", "detail", "convert", "write",
                      \* "comment", "done", "raised"
    page,             \* fetch_tickets: the page counter
    fetched,          \* fetch_tickets: its list `tickets`, and in the end its return value
    tickets,          \* migrate_tickets: the list it loops over (after the limit)
    i,                \* migrate_tickets: the 1-based position in tickets
    detailed_ticket,  \* migrate_tickets: the detail of the current ticket
    issue_data,       \* migrate_tickets: the draft of the current ticket
    issue_number,     \* migrate_tickets: the number of the issue just created
    c,                \* migrate_tickets: the 1-based position in the draft's comments
    success_count,    \* migrate_tickets: the counter
    result,           \* migrate_tickets: its return value, None until it returns
    gh_issues,        \* GitHub: how many issues the repository holds
    pages,            \* history: the page responses, in request order
    drafts,           \* history: every call of convert_ticket_to_issue with what it gave
    log               \* history: every outbound call and every sleep, in order

vars == <<params, exit_code, status, limit, dry_run, pc, page, fetched, tickets, i, detailed_ticket, issue_data,
          issue_number, c, success_count, result, gh_issues, pages, drafts, log>>

\* one entry of the log: op is "page", "detail", "create", "comment" or "sleep";
\* rec the page number or the ticket position; num the issue number (or the
\* seconds slept); k the comment position; q the status query sent; ok the outcome
Entry(op, rec, num, k, q, ok) == [op |-> op, rec |-> rec, num |-> num, k |-> k, q |-> q, ok |-> ok]
Sleep(secs) == Entry("sleep", 0, secs, 0, "", TRUE)

\* the outbound calls alone
Calls == SelectSeq(log, LAMBDA e : e.op # "sleep")
CallsOf(op) == SelectSeq(log, LAMBDA e : e.op = op)

\* params["q"] of the page request: no query for status "all"
StatusQuery(st) == IF st # "all" THEN "status:" \o st ELSE ""

\* tickets[:limit] when a limit is given and is not 0
LimitTickets(ts, lim) ==
    IF lim.k = "val" /\ lim.v # 0
    THEN IF lim.v >= 0
         THEN SubSeq(ts, 1, IF lim.v < Len(ts) THEN lim.v ELSE Len(ts))
         ELSE SubSeq(ts, 1, IF Len(ts) + lim.v > 0 THEN Len(ts) + lim.v ELSE 0)
    ELSE ts

\* data.get("tickets", [])
TicketList(data) == PyGet(data.tickets, Val(<<>>))
\* data.get("count", 0)
DataCount(data) == PyGet(data.count, Val(0)).v

\* LoopBreaks with > for >=
LoopBreaks_Strict(sofar, data) ==
    \/ ~Truthy(TicketList(data))
    \/ Len(sofar) + Len(TicketList(data).v) > DataCount(data)

\* the loop of fetch_tickets ends at this page: it is empty, or the list has
\* reached the reported total
LoopBreaks(sofar, data) ==
    \/ ~Truthy(TicketList(data))
    \/ Len(sofar) + Len(TicketList(data).v) >= DataCount(data)

\* the responses the source may give to one page request when the list holds
\* sofar tickets
PageResponses(sofar) ==
    [tickets : {Missing(<<>>)} \cup {Val(l) : l \in SeqsUpTo(RunTickets, MaxTickets - Len(sofar))},
     count : {Missing(0)} \cup {Val(n) : n \in 1..MaxTickets}]

Init ==
    /\ status = "open"
    /\ limit = Null(0)
    /\ dry_run = FALSE
    /\ params = NoParams
    /\ exit_code = Null(0)
    /\ pc = "main"
    /\ page = 0
    /\ fetched = <<>>
    /\ tickets = <<>>
    /\ i = 0
    /\ detailed_ticket = NoDetail
    /\ issue_data = NoDraft
    /\ issue_number = 0
    /\ c = 0
    /\ success_count = 0
    /\ result = Null(0)
    /\ gh_issues = 0
    /\ pages = <<>>
    /\ drafts = <<>>
    /\ log = <<>>

\* fetch_tickets returns ts: migrate_tickets cuts the list to the limit and
\* enters its loop, or returns 0 when the list is empty
StartLoop(ts) ==
    /\ fetched' = ts
    /\ tickets' = LimitTickets(ts, limit)
    /\ IF Len(LimitTickets(ts, limit)) > 0
       THEN pc' = "detail" /\ i' = 1 /\ result' = result
       ELSE pc' = "done" /\ i' = i /\ result' = Val(success_count)

\* NextTicket with the loop staying on the same ticket
NextTicket_NoAdvance(n) ==
    /\ success_count' = n
    /\ pc' = "detail" /\ i' = i /\ result' = result

\* the loop of migrate_tickets goes to the next ticket, or the function
\* returns the counter n
NextTicket(n) ==
    /\ success_count' = n
    /\ IF i < Len(tickets)
       THEN pc' = "detail" /\ i' = i + 1 /\ result' = result
       ELSE pc' = "done" /\ i' = i /\ result' = Val(n)

\* load_config cannot read or parse the file: sys.exit(1)
MainConfigError ==
    /\ pc = "main"
    /\ pc' = "exit"
    /\ exit_code' = Val(1)
    /\ UNCHANGED <<params, status, limit, dry_run, page, fetched, tickets, i, detailed_ticket,
                   issue_data, issue_number, c, success_count, result, gh_issues, pages, drafts, log>>

\* a required parameter is missing after the merge: sys.exit(1)
MainExit ==
    /\ pc = "main"
    /\ \E args \in [ParamNames -> ArgInputs], config \in [ParamNames -> ConfigInputs], env \in EnvInputs :
           /\ ~RequiredPresent(Merged(args, config, env))
           /\ params' = Merged(args, config, env)
    /\ pc' = "exit"
    /\ exit_code' = Val(1)
    /\ UNCHANGED <<status, limit, dry_run, page, fetched, tickets, i, detailed_ticket,
                   issue_data, issue_number, c, success_count, result, gh_issues, pages, drafts, log>>

\* all required parameters are there: main builds the migrator and calls
\* migrate_tickets with --status, --limit and --dry-run
MainRun ==
    /\ pc = "main"
    /\ \E args \in [ParamNames -> ArgInputs], config \in [ParamNames -> ConfigInputs], env \in EnvInputs :
           /\ RequiredPresent(Merged(args, config, env))
           /\ params' = Merged(args, config, env)
    /\ status' \in {"open", "closed", "all"}
    /\ limit' \in {Null(0)} \cup {Val(n) : n \in 0..(MaxTickets - 1)}
    /\ dry_run' \in BOOLEAN
    /\ pc' = "fetch"
    /\ UNCHANGED <<exit_code, page, fetched, tickets, i, detailed_ticket,
                   issue_data, issue_number, c, success_count, result, gh_issues, pages, drafts, log>>

\* FetchPageFail with the list thrown away on a failure
FetchPageFail_DropsList ==
    /\ pc = "fetch"
    /\ UNCHANGED <<params, exit_code>>
    /\ log' = Append(log, Entry("page", page, 0, 0, StatusQuery(status), FALSE))
    /\ pages' = Append(pages, [ok |-> FALSE, data |-> [tickets |-> Missing(<<>>), count |-> Missing(0)]])
    /\ StartLoop(<<>>)
    /\ UNCHANGED <<status, limit, dry_run, page, detailed_ticket, issue_data, issue_number, c,
                   success_count, gh_issues, drafts>>

\* a page request raises RequestException: the loop ends with what it has
FetchPageFail ==
    /\ pc = "fetch"
    /\ UNCHANGED <<params, exit_code>>
    /\ log' = Append(log, Entry("page", page, 0, 0, StatusQuery(status), FALSE))
    /\ pages' = Append(pages, [ok |-> FALSE, data |-> [tickets |-> Missing(<<>>), count |-> Missing(0)]])
    /\ StartLoop(fetched)
    /\ UNCHANGED <<status, limit, dry_run, page, detailed_ticket, issue_data, issue_number, c,
                   success_count, gh_issues, drafts>>

\* a page arrives and ends the loop
FetchPageLast ==
    /\ pc = "fetch"
    /\ UNCHANGED <<params, exit_code>>
    /\ \E data \in PageResponses(fetched) :
         /\ LoopBreaks(fetched, data)
         /\ log' = Append(log, Entry("page", page, 0, 0, StatusQuery(status), TRUE))
         /\ pages' = Append(pages, [ok |-> TRUE, data |-> data])
         /\ StartLoop(IF Truthy(TicketList(data)) THEN fetched \o TicketList(data).v ELSE fetched)
    /\ UNCHANGED <<status, limit, dry_run, page, detailed_ticket, issue_data, issue_number, c,
                   success_count, gh_issues, drafts>>

\* a page arrives and the loop goes on to the next page, after a pause
FetchPageMore ==
    /\ pc = "fetch"
    /\ UNCHANGED <<params, exit_code>>
    /\ page + 1 < MaxPages
    /\ \E data \in PageResponses(fetched) :
         /\ ~LoopBreaks(fetched, data)
         /\ log' = log \o <<Entry("page", page, 0, 0, StatusQuery(status), TRUE), Sleep(1)>>
         /\ pages' = Append(pages, [ok |-> TRUE, data |-> data])
         /\ fetched' = fetched \o TicketList(data).v
    /\ page' = page + 1
    /\ UNCHANGED <<status, limit, dry_run, pc, tickets, i, detailed_ticket, issue_data,
                   issue_number, c, success_count, result, gh_issues, drafts>>

\* ticket.get("ticket_num", "unknown") != "unknown"
HasTicketNum(ticket) == ticket.ticket_num.k # "missing"

\* SkipDetail with the detail fetch left out of every dry run
SkipDetail_InDryRun ==
    /\ pc = "detail"
    /\ UNCHANGED <<params, exit_code>>
    /\ ~HasTicketNum(tickets[i]) \/ dry_run
    /\ detailed_ticket' = NoDetail
    /\ pc' = "convert"
    /\ UNCHANGED <<status, limit, dry_run, page, fetched, tickets, i, issue_data, issue_number, c,
                   success_count, result, gh_issues, pages, drafts, log>>

\* the ticket has no number: no detail is fetched
SkipDetail ==
    /\ pc = "detail"
    /\ UNCHANGED <<params, exit_code>>
    /\ ~HasTicketNum(tickets[i])
    /\ detailed_ticket' = NoDetail
    /\ pc' = "convert"
    /\ UNCHANGED <<status, limit, dry_run, page, fetched, tickets, i, issue_data, issue_number, c,
                   success_count, result, gh_issues, pages, drafts, log>>

\* fetch_ticket_details returns the decoded response, and the loop pauses
FetchDetailOk ==
    /\ pc = "detail"
    /\ UNCHANGED <<params, exit_code>>
    /\ HasTicketNum(tickets[i])
    /\ \E d \in RunDetails :
         /\ detailed_ticket' = d
         /\ log' = log \o <<Entry("detail", i, 0, 0, "", TRUE)>>
                       \o (IF DetailTruthy(d) THEN <<Sleep(1)>> ELSE <<>>)
    /\ pc' = "convert"
    /\ UNCHANGED <<status, limit, dry_run, page, fetched, tickets, i, issue_data, issue_number, c,
                   success_count, result, gh_issues, pages, drafts>>

\* fetch_ticket_details catches RequestException and returns None
FetchDetailFail ==
    /\ pc = "detail"
    /\ UNCHANGED <<params, exit_code>>
    /\ HasTicketNum(tickets[i])
    /\ detailed_ticket' = NoDetail
    /\ log' = Append(log, Entry("detail", i, 0, 0, "", FALSE))
    /\ pc' = "convert"
    /\ UNCHANGED <<status, limit, dry_run, page, fetched, tickets, i, issue_data, issue_number, c,
                   success_count, result, gh_issues, pages, drafts>>

\* the call of convert_ticket_to_issue; an exception it raises ends the run
Convert ==
    /\ pc = "convert"
    /\ UNCHANGED <<params, exit_code>>
    /\ issue_data' = convert_ticket_to_issue(tickets[i], detailed_ticket)
    /\ drafts' = Append(drafts, [rec |-> i, absent |-> ~DetailTruthy(detailed_ticket),
                                 detail |-> detailed_ticket, draft |-> issue_data'])
    /\ pc' = IF issue_data'.raised THEN "raised" ELSE "write"
    /\ UNCHANGED <<status, limit, dry_run, page, fetched, tickets, i, detailed_ticket, issue_number,
                   c, success_count, result, gh_issues, pages, log>>

\* DryRunRecord without the increment of the counter
DryRunRecord_NoCount ==
    /\ pc = "write"
    /\ UNCHANGED <<params, exit_code>>
    /\ dry_run
    /\ NextTicket(success_count)
    /\ UNCHANGED <<status, limit, dry_run, page, fetched, tickets, detailed_ticket, issue_data,
                   issue_number, c, gh_issues, pages, drafts, log>>

\* the dry-run branch: nothing is written, the ticket counts
DryRunRecord ==
    /\ pc = "write"
    /\ UNCHANGED <<params, exit_code>>
    /\ dry_run
    /\ NextTicket(success_count + 1)
    /\ UNCHANGED <<status, limit, dry_run, page, fetched, tickets, detailed_ticket, issue_data,
                   issue_number, c, gh_issues, pages, drafts, log>>

\* CreateIssueFail with the exception left to end the run
CreateIssueFail_Aborts ==
    /\ pc = "write"
    /\ UNCHANGED <<params, exit_code>>
    /\ ~dry_run
    /\ log' = Append(log, Entry("create", i, 0, 0, "", FALSE))
    /\ pc' = "raised"
    /\ UNCHANGED <<status, limit, dry_run, page, fetched, tickets, i, detailed_ticket, issue_data,
                   issue_number, c, success_count, result, gh_issues, pages, drafts>>

\* CreateIssueFail with the create tried again after a failure
CreateIssueFail_Retries ==
    /\ pc = "write"
    /\ UNCHANGED <<params, exit_code>>
    /\ ~dry_run
    /\ log' = Append(log, Entry("create", i, 0, 0, "", FALSE))
    /\ UNCHANGED <<status, limit, dry_run, pc, page, fetched, tickets, i, detailed_ticket, issue_data,
                   issue_number, c, success_count, result, gh_issues, pages, drafts>>

\* create_issue catches RequestException and returns None: the ticket does not count
CreateIssueFail ==
    /\ pc = "write"
    /\ UNCHANGED <<params, exit_code>>
    /\ ~dry_run
    /\ log' = Append(log, Entry("create", i, 0, 0, "", FALSE))
    /\ NextTicket(success_count)
    /\ UNCHANGED <<status, limit, dry_run, page, fetched, tickets, detailed_ticket, issue_data,
                   issue_number, c, gh_issues, pages, drafts>>

\* comments and issue_number
HasComments(draft, number) == Len(draft.comments) > 0 /\ number # 0

\* create_issue returns the issue: its comments follow, or the ticket counts at once
CreateIssueOk ==
    /\ pc = "write"
    /\ UNCHANGED <<params, exit_code>>
    /\ ~dry_run
    /\ gh_issues' = gh_issues + 1
    /\ issue_number' = gh_issues + 1
    /\ IF HasComments(issue_data, gh_issues + 1)
       THEN /\ log' = Append(log, Entry("create", i, gh_issues + 1, 0, "", TRUE))
            /\ pc' = "comment"
            /\ c' = 1
            /\ UNCHANGED <<i, success_count, result>>
       ELSE /\ log' = log \o <<Entry("create", i, gh_issues + 1, 0, "", TRUE), Sleep(2)>>
            /\ c' = c
            /\ NextTicket(success_count + 1)
    /\ UNCHANGED <<status, limit, dry_run, page, fetched, tickets, detailed_ticket, issue_data,
                   pages, drafts>>

\* AfterComment that leaves the loop over the comments after the first one
AfterComment_SkipsRest ==
    /\ c' = c
    /\ NextTicket(success_count + 1)

\* after add_comment: the next comment, or the ticket counts
AfterComment ==
    IF c < Len(issue_data.comments)
    THEN /\ c' = c + 1
         /\ UNCHANGED <<pc, i, success_count, result>>
    ELSE /\ c' = c
         /\ NextTicket(success_count + 1)

\* AddCommentOk without the sleep after the comment
AddCommentOk_NoPause ==
    /\ pc = "comment"
    /\ UNCHANGED <<params, exit_code>>
    /\ log' = Append(log, Entry("comment", i, issue_number, c, "", TRUE))
    /\ AfterComment
    /\ UNCHANGED <<status, limit, dry_run, page, fetched, tickets, detailed_ticket, issue_data,
                   issue_number, gh_issues, pages, drafts>>

\* AddCommentOk that counts a success for every comment
AddCommentOk_CountsEach ==
    /\ pc = "comment"
    /\ UNCHANGED <<params, exit_code>>
    /\ log' = log \o <<Entry("comment", i, issue_number, c, "", TRUE), Sleep(1)>>
                  \o (IF c < Len(issue_data.comments) THEN <<>> ELSE <<Sleep(2)>>)
    /\ IF c < Len(issue_data.comments)
       THEN /\ c' = c + 1
            /\ success_count' = success_count + 1
            /\ UNCHANGED <<pc, i, result>>
       ELSE /\ c' = c
            /\ NextTicket(success_count + 1)
    /\ UNCHANGED <<status, limit, dry_run, page, fetched, tickets, detailed_ticket, issue_data,
                   issue_number, gh_issues, pages, drafts>>

\* add_comment succeeds
AddCommentOk ==
    /\ pc = "comment"
    /\ UNCHANGED <<params, exit_code>>
    /\ log' = log \o <<Entry("comment", i, issue_number, c, "", TRUE), Sleep(1)>>
                  \o (IF c < Len(issue_data.comments) THEN <<>> ELSE <<Sleep(2)>>)
    /\ AfterComment
    /\ UNCHANGED <<status, limit, dry_run, page, fetched, tickets, detailed_ticket, issue_data,
                   issue_number, gh_issues, pages, drafts>>

\* AddCommentFail with the exception of add_comment left uncaught
AddCommentFail_Aborts ==
    /\ pc = "comment"
    /\ UNCHANGED <<params, exit_code>>
    /\ log' = Append(log, Entry("comment", i, issue_number, c, "", FALSE))
    /\ pc' = "raised"
    /\ UNCHANGED <<status, limit, dry_run, page, fetched, tickets, i, detailed_ticket, issue_data,
                   issue_number, c, success_count, result, gh_issues, pages, drafts>>

\* add_comment catches RequestException and returns False, which the loop ignores
AddCommentFail ==
    /\ pc = "comment"
    /\ UNCHANGED <<params, exit_code>>
    /\ log' = log \o <<Entry("comment", i, issue_number, c, "", FALSE), Sleep(1)>>
                  \o (IF c < Len(issue_data.comments) THEN <<>> ELSE <<Sleep(2)>>)
    /\ AfterComment
    /\ UNCHANGED <<status, limit, dry_run, page, fetched, tickets, detailed_ticket, issue_data,
                   issue_number, gh_issues, pages, drafts>>

Next ==
    \/ MainConfigError
    \/ MainExit
    \/ MainRun
    \/ FetchPageFail
    \/ FetchPageLast
    \/ FetchPageMore
    \/ SkipDetail
    \/ FetchDetailOk
    \/ FetchDetailFail
    \/ Convert
    \/ DryRunRecord
    \/ CreateIssueFail
    \/ CreateIssueOk
    \/ AddCommentOk
    \/ AddCommentFail

Spec == Init /\ [][Next]_vars

\* ------------------------------------- the transform alone, on all inputs

InitT ==
    /\ status = "open"
    /\ limit = Null(0)
    /\ dry_run = TRUE
    /\ params = Merged(GivenArgs, NoConfig, NoneS)
    /\ exit_code = Null(0)
    /\ pc = "convert"
    /\ page = 0
    /\ fetched = <<>>
    /\ \/ tickets \in {<<t>> : t \in TicketInputs} /\ detailed_ticket \in {NoDetail, DetailGood}
       \/ tickets \in {<<t>> : t \in RunTickets} /\ detailed_ticket \in DetailInputs
    /\ i = 1
    /\ issue_data = NoDraft
    /\ issue_number = 0
    /\ c = 0
    /\ success_count = 0
    /\ result = Null(0)
    /\ gh_issues = 0
    /\ pages = <<>>
    /\ drafts = <<>>
    /\ log = <<>>

NextT == Convert

SpecT == InitT /\ [][NextT]_vars

\* ------------------------------------------------- what the claims speak of

\* the tickets a page response carried
PageTickets(r) == IF r.ok /\ r.data.tickets.k = "val" THEN r.data.tickets.v ELSE <<>>
\* the total a page response reported
PageCount(r) == IF r.data.count.k = "val" THEN r.data.count.v ELSE 0

RECURSIVE PagesConcat(_)
\* the tickets of the given page responses, in page order
PagesConcat(ps) == IF Len(ps) = 0 THEN <<>> ELSE PageTickets(Head(ps)) \o PagesConcat(Tail(ps))

\* page response j is one after which no page may be requested: it is empty, or
\* with it the tickets fetched so far reach the total it reports
StopsAt(j) ==
    \/ Len(PageTickets(pages[j])) = 0
    \/ Len(PagesConcat(SubSeq(pages, 1, j))) >= PageCount(pages[j])

AllPagesOk == \A j \in 1..Len(pages) : pages[j].ok

\* the positions in the sequence of calls cs of the calls of one kind for ticket r
CallPos(cs, op, r) == {j \in 1..Len(cs) : cs[j].op = op /\ cs[j].rec = r}

\* the ticket positions whose create_issue call failed
FailedCreates == {e.rec : e \in {x \in {log[j] : j \in 1..Len(log)} : x.op = "create" /\ ~x.ok}}

\* the first n elements of s, all of s when it has fewer
FirstN(s, n) == [j \in 1..(IF n < Len(s) THEN n ELSE Len(s)) |-> s[j]]

\* sub occurs in s as a block
Contains(s, sub) == \E j \in 0..(Len(s) - Len(sub)) : SubSeq(s, j + 1, j + Len(sub)) = sub

\* out is inp in lower case with every space turned into a hyphen
IsSanitized(out, inp) ==
    /\ Len(out) = Len(inp)
    /\ \A j \in 1..Len(inp) :
         out[j] = (IF inp[j] = " " THEN "-"
                   ELSE IF \E h \in 1..26 : Uppers[h] = inp[j]
                   THEN Lowers[CHOOSE h \in 1..26 : Uppers[h] = inp[j]]
                   ELSE inp[j])

\* the m-th smallest element of a set of numbers
Nth(S, m) == CHOOSE j \in S : Cardinality({h \in S : h <= j}) = m

\* the list under a key of the detail that convert_ticket_to_issue was given:
\* empty unless the detail, its ticket object and the key hold values
SourceLabels(d) ==
    IF d.k = "val" /\ d.ticket.k = "val" /\ d.ticket.v.labels.k = "val"
    THEN d.ticket.v.labels.v ELSE <<>>
SourcePosts(d) ==
    IF /\ d.k = "val" /\ d.ticket.k = "val" /\ d.ticket.v.discussion_thread.k = "val"
       /\ d.ticket.v.discussion_thread.v.posts.k = "val"
    THEN d.ticket.v.discussion_thread.v.posts.v ELSE <<>>

NonEmpty(x) == x.k = "val" /\ x.v # <<>>

\* --------------------------------------------------------------- the claims

\* C1: in a dry run no create_issue and no add_comment call is ever made,
\* whatever the status filter, the limit and the failures of the reader, and the
\* count returned is the number of tickets processed.
C1_DryRunWritesNothing ==
    dry_run =>
        /\ CallsOf("create") = <<>>
        /\ CallsOf("comment") = <<>>
        /\ gh_issues = 0
        /\ pc = "done" => /\ Len(drafts) = Len(tickets)
                          /\ result = Val(Len(drafts))

\* a dry run with limit 1 over two listed tickets has returned 1, after a detail
\* fetch that failed
C1_Witness ==
    /\ dry_run /\ pc = "done" /\ limit = Val(1) /\ Len(fetched) = 2 /\ result = Val(1)
    /\ \E j \in 1..Len(log) : log[j].op = "detail" /\ ~log[j].ok

\* C2: in a run that writes, a failed create_issue never ends the run: the loop
\* goes on to the next ticket, so that when the run returns create_issue has been
\* attempted once for every ticket, in listing order, and the count returned is
\* the number of tickets minus the number of failed creates.
C2_CreateFailureIsolated ==
    ~dry_run =>
        LET creates == CallsOf("create")
        IN /\ \A r \in FailedCreates : IF r < Len(tickets) THEN i > r ELSE pc = "done"
           /\ pc = "done" =>
                 /\ Len(creates) = Len(tickets)
                 /\ \A r \in 1..Len(tickets) : creates[r].rec = r
                 /\ result = Val(Len(tickets) - Cardinality(FailedCreates))

\* two tickets, the create of the first failed, the second succeeded: 1 returned
C2_Witness ==
    /\ ~dry_run /\ pc = "done" /\ Len(tickets) = 2 /\ FailedCreates = {1} /\ result = Val(1)

\* C3: while no page request fails, the pages requested are 0, 1, 2, ... in
\* order; no page is requested after a page that is empty or brings the tickets
\* fetched to the reported total; the loop ends only at such a page and goes on
\* to the next page otherwise; the list is the pages' tickets in page order.
C3_PaginationStopsExactly ==
    AllPagesOk =>
        /\ LET requests == CallsOf("page")
           IN /\ Len(requests) = Len(pages)
              /\ \A j \in 1..Len(pages) : requests[j].rec = j - 1
        /\ \A j \in 1..(Len(pages) - 1) : ~StopsAt(j)
        /\ Len(pages) > 0 => (pc = "fetch" <=> ~StopsAt(Len(pages)))
        /\ pc = "fetch" => page = Len(pages)
        /\ fetched = PagesConcat(pages)

\* two pages were fetched without a failure, one ticket each, and the loop is over
C3_Witness ==
    /\ AllPagesOk /\ Len(pages) = 2 /\ pc # "fetch"
    /\ Len(PageTickets(pages[1])) = 1 /\ Len(PageTickets(pages[2])) = 1

\* C4: a page request that fails is the last one; fetch_tickets then returns the
\* tickets of the pages before it, in order, and migrate_tickets goes through
\* them as in any run: every one is converted before the run returns.
C4_PageFailureKeepsEarlierPages ==
    \A j \in 1..Len(pages) :
        ~pages[j].ok =>
            /\ j = Len(pages)
            /\ Len(CallsOf("page")) = j
            /\ pc # "fetch"
            /\ fetched = PagesConcat(SubSeq(pages, 1, j - 1))
            /\ limit.k = "null" => tickets = fetched
            /\ Len(tickets) = 0 => pc = "done" /\ result = Val(0)
            /\ pc = "done" => Len(drafts) = Len(tickets)

\* page 0 gave one ticket, page 1 failed, and the run went through that ticket
C4_Witness ==
    /\ Len(pages) = 2 /\ pages[1].ok /\ ~pages[2].ok
    /\ Len(fetched) = 1 /\ Len(tickets) = 1 /\ pc = "done" /\ Len(drafts) = 1

\* C5: with a limit L >= 0 the run goes through exactly the first min(L, n) of
\* the n tickets listed, in listing order; with no limit, through all n.
C5_LimitTakesFirstMin ==
    pc # "fetch" =>
        tickets = (IF limit.k = "val" THEN FirstN(fetched, limit.v) ELSE fetched)

\* C6: add_comment is called for a ticket only after that ticket's create_issue
\* succeeded, and with the number that create returned; once a ticket whose
\* create succeeded is finished, its comments were sent one call each, in the
\* draft's order; a ticket whose create failed gets no comment.
C6_CommentsFollowCreate ==
    LET cs == Calls
    IN /\ \A j \in 1..Len(cs) :
             cs[j].op = "comment" =>
                 \E h \in 1..(j - 1) :
                     /\ cs[h].op = "create" /\ cs[h].ok
                     /\ cs[h].rec = cs[j].rec
                     /\ cs[h].num = cs[j].num
       /\ \A r \in FailedCreates : CallPos(cs, "comment", r) = {}
       /\ \A j \in 1..Len(cs) :
             (cs[j].op = "create" /\ cs[j].ok /\ (cs[j].rec < i \/ pc = "done")) =>
                 LET r == cs[j].rec
                     n == Len(drafts[r].draft.comments)
                 IN /\ Cardinality(CallPos(cs, "comment", r)) = n
                    /\ \A m \in 1..n : /\ j + m \in CallPos(cs, "comment", r)
                                       /\ cs[j + m].k = m

\* the first create failed; the second gave number 1 and both comments of its
\* draft were sent to number 1
C6_Witness ==
    /\ pc = "done" /\ FailedCreates = {1}
    /\ Cardinality(CallPos(Calls, "comment", 2)) = 2
    /\ \A j \in CallPos(Calls, "comment", 2) : Calls[j].num = 1

\* C7: every ticket processed gets one call of convert_ticket_to_issue and one
\* draft from it, whether its detail was fetched, failed or was not asked for;
\* without a detail the draft has a non-empty body, a title that holds the
\* ticket number, no comment, and the migration label plus at most the status
\* label.
C7_OneDraftPerTicket ==
    /\ \A r \in 1..Len(drafts) : drafts[r].rec = r /\ ~drafts[r].draft.raised
    /\ pc \in {"write", "comment"} => Len(drafts) = i
    /\ \A r \in 1..Len(drafts) :
          drafts[r].absent =>
              /\ Len(drafts[r].draft.body) > 0
              /\ Contains(drafts[r].draft.title,
                          IF tickets[r].ticket_num.k = "val"
                          THEN IntToStr(tickets[r].ticket_num.v) ELSE <<>>)
              /\ drafts[r].draft.comments = <<>>
              /\ Len(drafts[r].draft.labels) <= 2
              /\ drafts[r].draft.labels[1] = <<"migrated-from-sourceforge">>

\* C8: convert_ticket_to_issue returns a draft for every ticket and every
\* detail, also one in which the ticket object, the discussion thread or the
\* posts are missing, null or empty: it never raises.
C8_ConvertNeverRaises ==
    \A r \in 1..Len(drafts) : ~drafts[r].draft.raised

\* C9: the labels of a draft are the migration label, then the status label if
\* and only if the status is not empty, then every non-empty source label
\* sanitized, in the source's order, nothing merged and nothing moved.
C9_LabelsInOrder ==
    \A r \in 1..Len(drafts) :
        ~drafts[r].draft.raised =>
            LET labels == drafts[r].draft.labels
                st == tickets[r].status
                src == SourceLabels(detailed_ticket)
                kept == {j \in 1..Len(src) : NonEmpty(src[j])}
                off == IF NonEmpty(st) THEN 2 ELSE 1
            IN /\ Len(labels) = off + Cardinality(kept)
               /\ labels[1] = <<"migrated-from-sourceforge">>
               /\ NonEmpty(st) =>
                     /\ labels[2][1] = "sf-status-"
                     /\ IsSanitized(Tail(labels[2]), st.v)
               /\ \A m \in 1..Cardinality(kept) : IsSanitized(labels[off + m], src[Nth(kept, m)].v)

\* a status with a capital and a space, an empty source label that is dropped
\* and the same label twice, both kept
C9_Witness ==
    /\ Len(drafts) = 1 /\ ~drafts[1].draft.raised
    /\ tickets[1].status = Val(Chars_WontFix)
    /\ drafts[1].draft.labels = << <<"migrated-from-sourceforge">>,
                                   <<"sf-status-", "w", "o", "n", "t", "-", "f", "i", "x">>,
                                   <<"w", "o", "n", "t", "-", "f", "i", "x">> >>
    /\ Len(SourceLabels(detailed_ticket)) = 2

\* C10: a draft has as many comments as the thread has posts with a non-empty
\* text, and its m-th comment is made from the m-th such post: its author, its
\* date and its text.
C10_CommentsFollowPosts ==
    \A r \in 1..Len(drafts) :
        ~drafts[r].draft.raised =>
            LET comments == drafts[r].draft.comments
                posts == SourcePosts(detailed_ticket)
                kept == {j \in 1..Len(posts) : NonEmpty(posts[j].text)}
            IN /\ Len(comments) = Cardinality(kept)
               /\ \A m \in 1..Cardinality(kept) :
                     LET post == posts[Nth(kept, m)]
                     IN comments[m] =
                           <<"**Comment by ">>
                           \o (IF post.author.k = "missing" THEN <<"unknown">>
                               ELSE IF post.author.k = "null" THEN <<"None">> ELSE post.author.v)
                           \o <<"** *(SourceForge)*", "\n", "**Date:** ">>
                           \o (IF post.timestamp.k = "val" THEN post.timestamp.v ELSE <<>>)
                           \o <<"\n", "\n">> \o post.text.v

\* a thread of an empty post followed by a post with a text: one comment, made
\* from the second post
C10_Witness ==
    /\ Len(drafts) = 1 /\ ~drafts[1].draft.raised
    /\ Len(SourcePosts(detailed_ticket)) = 2
    /\ ~NonEmpty(SourcePosts(detailed_ticket)[1].text)
    /\ NonEmpty(SourcePosts(detailed_ticket)[2].text)
    /\ Len(drafts[1].draft.comments) = 1

\* ------------------------------------------------------------- C11

RECURSIVE Split(_, _)
\* the pieces of s between the occurrences of the atom sep
Split(s, sep) ==
    IF \A j \in 1..Len(s) : s[j] # sep THEN <<s>>
    ELSE LET k == CHOOSE j \in 1..Len(s) : s[j] = sep /\ \A m \in 1..(j - 1) : s[m] # sep
         IN <<SubSeq(s, 1, k - 1)>> \o Split(SubSeq(s, k + 1, Len(s)), sep)

BodyLines == Split(issue_data.body, "\n")
UrlPrefixes == {<<"](">>, <<"](", "https://sourceforge.net">>, <<"](", "https://sourceforge.net/">>}

\* line is a body line of the attachment at url, opened by mark
IsLineFor(line, mark, url) ==
    /\ Len(line) > 0
    /\ line[1] = mark
    /\ \E pre \in UrlPrefixes : EndsWith(line, pre \o url \o <<")">>)

Embedded(url) == \E j \in 1..Len(BodyLines) : IsLineFor(BodyLines[j], "![", url)
Linked(url) == \E j \in 1..Len(BodyLines) : IsLineFor(BodyLines[j], "- [", url)

\* s ends in one of the image extensions, whatever the case of its letters
EndsInImageExt(s) ==
    \E ext \in IMAGE_EXTENSIONS :
        /\ Len(s) >= Len(ext)
        /\ \A j \in 1..Len(ext) : LowerChar(s[Len(s) - Len(ext) + j]) = ext[j]

SourceAttachments(d) ==
    IF d.k = "val" /\ d.ticket.k = "val" /\ d.ticket.v.attachments.k = "val"
    THEN d.ticket.v.attachments.v ELSE <<>>

\* the attachment URLs of the draft just made
DraftUrls ==
    IF Len(drafts) = 0 \/ issue_data.raised THEN {}
    ELSE LET atts == SourceAttachments(detailed_ticket)
         IN {atts[j].url.v : j \in {m \in 1..Len(atts) : NonEmpty(atts[m].url)}}

\* C11 as stated: an attachment whose URL ends, in any case, in an image
\* extension is embedded and not linked; every other URL is linked and not embedded.
C11_ImageByUrlEnding ==
    \A url \in DraftUrls :
        IF EndsInImageExt(url) THEN Embedded(url) /\ ~Linked(url)
        ELSE Linked(url) /\ ~Embedded(url)

\* C11 amended: the test is on the file name taken from the URL (the text
\* before the first "?", its last path component): a name that ends, in any
\* case, in an image extension is embedded and not linked; every other name
\* is linked and not embedded.
C11_ImageByFilenameEnding ==
    \A url \in DraftUrls :
        IF EndsInImageExt(AttFilename(url)) THEN Embedded(url) /\ ~Linked(url)
        ELSE Linked(url) /\ ~Embedded(url)

\* a draft with an image name followed by a query string, and a file whose
\* query string ends in an image extension
C11_Witness ==
    /\ DraftUrls = {Chars_shot, Chars_doc}
    /\ Embedded(Chars_shot)
    /\ Linked(Chars_doc)

\* ------------------------------------------------------------- C12

\* the tickets whose create succeeded
CreatedOk == {log[j].rec : j \in {m \in 1..Len(log) : log[m].op = "create" /\ log[m].ok}}
\* the tickets the loop has left behind
Finished == {r \in 1..Len(tickets) : r < i \/ pc = "done"}

\* C12: a failed add_comment ends nothing and changes no outcome: the next
\* comment of the same ticket is the next call, after the last comment the loop
\* goes on to the next ticket or returns, and the counter is the number of
\* finished tickets whose create succeeded, whatever their comments did.
C12_CommentFailureIsolated ==
    LET cs == Calls
    IN /\ \A j \in 1..Len(cs) :
            (cs[j].op = "comment" /\ ~cs[j].ok) =>
                IF cs[j].k < Len(drafts[cs[j].rec].draft.comments)
                THEN IF j < Len(cs)
                     THEN cs[j + 1].op = "comment" /\ cs[j + 1].rec = cs[j].rec /\ cs[j + 1].k = cs[j].k + 1
                     ELSE pc = "comment" /\ i = cs[j].rec /\ c = cs[j].k + 1
                ELSE IF cs[j].rec < Len(tickets) THEN i > cs[j].rec ELSE pc = "done"
       /\ ~dry_run => success_count = Cardinality(CreatedOk \cap Finished)
       /\ (~dry_run /\ pc = "done") => result = Val(Cardinality(CreatedOk))

\* the first comment of the first ticket failed, the second was sent, the second
\* ticket was created, and both tickets count
C12_Witness ==
    /\ pc = "done"
    /\ result = Val(2)
    /\ \E j \in 1..Len(log) : log[j] = Entry("comment", 1, 1, 1, "", FALSE)
    /\ \E j \in 1..Len(log) : log[j].op = "comment" /\ log[j].rec = 1 /\ log[j].k = 2
    /\ \E j \in 1..Len(log) : log[j].op = "create" /\ log[j].rec = 2 /\ log[j].ok

\* ------------------------------------------------------------- C13

\* C13: once the merge has left a required parameter (project, owner,
\* repository, token) missing or empty, the process has exited with a non-zero
\* status, it made no outbound call and no sleep before that, and it does
\* nothing afterwards.
C13_MissingParamExitsBeforeCalls ==
    (pc # "main" /\ \E n \in ParamNames : ~Truthy(params[n])) =>
        /\ pc = "exit"
        /\ exit_code.k = "val" /\ exit_code.v # 0
        /\ log = <<>> /\ pages = <<>> /\ gh_issues = 0
        /\ ~ENABLED Next

\* the token alone is missing from the command line, the config file and the environment
C13_Witness ==
    /\ pc = "exit"
    /\ params.gh_token = NoneS
    /\ \A n \in ParamNames \ {"gh_token"} : Truthy(params[n])

\* ------------------------------------------------------------- C14

\* where a call stands within its ticket: detail fetch, create, comments
Stage(e) == IF e.op = "detail" THEN 1 ELSE IF e.op = "create" THEN 2 ELSE 3

\* call a may come before call b in a sequential pass
MayPrecede(a, b) ==
    IF a.op = "page" THEN b.op = "page" => a.rec < b.rec
    ELSE /\ b.op # "page"
         /\ \/ a.rec < b.rec
            \/ a.rec = b.rec /\ Stage(a) < Stage(b)
            \/ a.rec = b.rec /\ a.op = "comment" /\ b.op = "comment" /\ a.k < b.k

\* C14: the calls are made in listing order: every page request comes before
\* every detail fetch, every call for a ticket comes before every call for a
\* later ticket, and within a ticket the detail fetch comes before the create
\* and the create before the comments, which go in draft order.
C14_StrictlySequential ==
    LET cs == Calls
    IN \A a \in 1..Len(cs) : \A b \in (a + 1)..Len(cs) : MayPrecede(cs[a], cs[b])

\* two pages, then two tickets each with detail fetch, create and two comments
C14_Witness ==
    LET cs == Calls
    IN /\ pc = "done"
       /\ Len(cs) = 10
       /\ cs[2].op = "page" /\ cs[3].op = "detail" /\ cs[6].op = "comment" /\ cs[6].rec = 1
       /\ cs[7].op = "detail" /\ cs[7].rec = 2 /\ cs[10].op = "comment"

\* ------------------------------------------------------------- C15

\* C15: nothing is tried twice: at most one detail fetch and one create per
\* ticket, and at most one add_comment per comment of a draft, also after a failure.
C15_NoRetry ==
    LET cs == Calls
    IN \A a \in 1..Len(cs) : \A b \in (a + 1)..Len(cs) :
           (/\ cs[a].op \in {"detail", "create", "comment"}
            /\ cs[a].op = cs[b].op
            /\ cs[a].rec = cs[b].rec) => cs[a].k # cs[b].k

\* a run that ended after a failed detail fetch, a failed create and a failed comment
C15_Witness ==
    /\ pc = "done"
    /\ \E j \in 1..Len(log) : log[j].op = "detail" /\ ~log[j].ok
    /\ \E j \in 1..Len(log) : log[j].op = "create" /\ ~log[j].ok
    /\ \E j \in 1..Len(log) : log[j].op = "comment" /\ ~log[j].ok

\* ------------------------------------------------------------- C16

IsWrite(e) == e.op \in {"create", "comment"}
\* log[a] and log[b] are calls to GitHub with no call to GitHub between them
ConsecutiveWrites(a, b) ==
    /\ a < b
    /\ IsWrite(log[a]) /\ IsWrite(log[b])
    /\ \A m \in (a + 1)..(b - 1) : ~IsWrite(log[m])
SleepBetween(a, b) == \E m \in (a + 1)..(b - 1) : log[m].op = "sleep" /\ log[m].num >= 1

\* C16 as stated: in a run that writes, any two consecutive calls to GitHub
\* (create or comment, of one ticket or of two) have a sleep between them,
\* whatever succeeded and whatever failed.
C16_EveryWritePaced ==
    ~dry_run =>
        \A a \in 1..Len(log) : \A b \in 1..Len(log) :
            ConsecutiveWrites(a, b) => SleepBetween(a, b)

\* C16 amended: in a run that writes, there is a sleep between two consecutive
\* calls to GitHub when the first is a comment, and when the first is a
\* successful create whose draft has no comments; a create and its first
\* comment have no sleep between them, and a failed create is followed by none.
C16_PacedAfterCommentAndCountedCreate ==
    ~dry_run =>
        \A a \in {m \in 1..Len(log) : IsWrite(log[m])} : \A b \in (a + 1)..Len(log) :
            ConsecutiveWrites(a, b) =>
                /\ (log[a].op = "comment" \/ (log[a].ok /\ log[b].op = "create")) => SleepBetween(a, b)
                /\ (log[a].op = "create" /\ log[b].op = "comment") => b = a + 1

\* a comment followed by a comment, a comment followed by the next create, and
\* a create without comments followed by the next create
C16_Witness ==
    /\ \E a, b \in 1..Len(log) :
           ConsecutiveWrites(a, b) /\ log[a].op = "comment" /\ log[b].op = "comment"
    /\ \E a, b \in 1..Len(log) :
           ConsecutiveWrites(a, b) /\ log[a].op = "comment" /\ log[b].op = "create"

\* ------------------------------------------------------------- C17

\* what GitHub did in the run so far plays no part in the definitions below:
\* they are computed from the status filter, the limit, the page responses and
\* the detail responses alone.

\* the detail response for ticket r, once it is known
DetailOf(r) == IF r <= Len(drafts) THEN drafts[r].detail ELSE detailed_ticket
\* the tickets whose detail step is over
PastDetail == {r \in 1..Len(tickets) : r < i \/ (r = i /\ pc # "detail")}

RECURSIVE DetailReads(_)
\* the detail fetches for the tickets up to r, in order
DetailReads(r) ==
    IF r = 0 THEN <<>>
    ELSE DetailReads(r - 1)
         \o (IF r \in PastDetail /\ HasTicketNum(tickets[r])
             THEN <<Entry("detail", r, 0, 0, "", DetailOf(r).k = "val")>> ELSE <<>>)

PageReads == [j \in 1..Len(pages) |-> Entry("page", j - 1, 0, 0, StatusQuery(status), pages[j].ok)]

\* C17: the reader calls of a run, and each draft as it is made, are what the
\* source's answers, the status filter and the limit determine, in a dry run
\* and in a writing run alike and whatever create_issue and add_comment did
\* before: two runs with the same source behaviour, one dry and one not, make
\* the same reader calls and the same drafts.
C17_ReadsAndDraftsIgnoreWrites ==
    /\ SelectSeq(log, LAMBDA e : e.op \in {"page", "detail"}) = PageReads \o DetailReads(Len(tickets))
    /\ pc \notin {"main", "exit", "fetch"} => tickets = LimitTickets(PagesConcat(pages), limit)
    /\ \A r \in 1..Len(drafts) :
           /\ drafts[r].rec = r
           /\ drafts[r].draft.raised => (r = Len(drafts) /\ pc = "raised")
    /\ pc \in {"write", "raised"} =>
           drafts[i].draft = convert_ticket_to_issue(tickets[i], DetailOf(i))
    /\ Len(drafts) = Cardinality({r \in 1..Len(tickets) : r < i \/ (r = i /\ pc \notin {"detail", "convert"})})

\* a writing run over two tickets that ended after a failed create and a failed comment
C17_Witness ==
    /\ ~dry_run
    /\ pc = "done"
    /\ Len(drafts) = 2
    /\ \E j \in 1..Len(log) : log[j].op = "detail" /\ log[j].ok
    /\ \E j \in 1..Len(log) : log[j].op = "create" /\ ~log[j].ok /\ log[j].rec = 1
    /\ \E j \in 1..Len(log) : log[j].op = "comment" /\ ~log[j].ok /\ log[j].rec = 2

\* ------------------------------------------------------------- C18

\* every page that arrived reported the same total
SameTotal ==
    \A j \in 1..Len(pages) : \A m \in 1..Len(pages) :
        (pages[j].ok /\ pages[m].ok) =>
            (pages[j].data.count.k = "val" /\ pages[j].data.count = pages[m].data.count)

\* with one total T reported throughout there are at most T page requests, and
\* every page but the last brought at least one ticket
C18_ListingEnds ==
    (SameTotal /\ Len(pages) > 0 /\ pages[1].ok) =>
        /\ Len(pages) <= pages[1].data.count.v
        /\ \A j \in 1..(Len(pages) - 1) : Len(PageTickets(pages[j])) >= 1

\* how far the run has come: every step takes it further
PcRank ==
    CASE pc \in {"main", "detail"} -> 0
      [] pc \in {"exit", "fetch", "convert"} -> 1
      [] pc \in {"write", "raised"} -> 2
      [] pc \in {"comment", "done"} -> 3
Progress == 4 * (Len(log) + Len(drafts) + i) + PcRank

\* no run goes on for ever: every step raises Progress, which the finitely
\* many answers of the source bound
C18_EveryStepAdvances == [][Progress' > Progress]_vars

\* C18: when the source reports one total T on every page, the listing takes
\* at most T page requests, each page but the last adding to the list, and the
\* run of migrate_tickets does not end before it returns its count.
C18_RunReturns ==
    (pc \notin {"main", "exit"} /\ SameTotal) =>
        /\ C18_ListingEnds
        /\ pc # "raised"

\* ------------------------------------------------------------- C19

\* C19: at every step the counter stays or rises by one, it rises only as the
\* loop leaves a ticket, and afterwards it is at most the number of tickets
\* begun (i), which is at most the length of the truncated list.
C19_CounterBounded ==
    [][/\ success_count' \in {success_count, success_count + 1}
       /\ success_count' = success_count + 1 => (i' = i + 1 \/ pc' = "done")
       /\ success_count' <= i'
       /\ i' <= Len(tickets')]_vars

\* the first ticket counts and the second has begun
C19_Witness ==
    /\ success_count = 1
    /\ i = 2
    /\ pc = "write"
    /\ Len(tickets) = 2

====
